---- MODULE Spec2Model ----
(***************************************************************************)
(* Remote-control event translation of gst-plugins-rs:                     *)
(*   - the Inline Filter  (net/remotecontrol/src/remotecontrol/imp.rs),    *)
(*     RemoteControl::src_event behind catch_panic_pad_function;           *)
(*   - the Standalone Handler (net/webrtc/src/webrtcsink/remotecontrol.rs),*)
(*     handle_remotecontrol_event;                                         *)
(*   - the lazily created enigo backend of each of the two files.          *)
(***************************************************************************)
EXTENDS Integers, Sequences, FiniteSets, TLC

\* Number of threads that deliver events concurrently.
NumThreads == 2

Threads == 1..NumThreads

\* The two source files; each declares its own GLOBAL_ENIGO and INIT statics.
Modules == {"filter", "webrtc"}

\* i32::MAX, the saturation limit of Rust's 'as i32' cast.
I32Max == 2147483647

I32Min == (-I32Max) - 1

(***************************************************************************)
(* Values of a GstStructure field.  'structure.get::<T>(name)' is Ok only  *)
(* if the field is present and holds a T.  An f64 is kept in tenths        *)
(* (n = 39 is 3.9); "f64big" is a finite or infinite f64 whose magnitude   *)
(* is at least 2^31 (n is its sign); "f64nan" is NaN.                      *)
(***************************************************************************)
NoField == [k |-> "none", n |-> 0, s |-> ""]

F64(tenths) == [k |-> "f64", n |-> tenths, s |-> ""]

F64Big(sign) == [k |-> "f64big", n |-> sign, s |-> ""]

F64NaN == [k |-> "f64nan", n |-> 0, s |-> ""]

I32(i) == [k |-> "i32", n |-> i, s |-> ""]

Str(str) == [k |-> "str", n |-> 0, s |-> str]

IsF64(v) == v.k \in {"f64", "f64big", "f64nan"}

IsI32(v) == v.k = "i32"

IsStr(v) == v.k = "str"

\* Trunc rounding to the nearest integer instead of dropping the fraction.
Trunc_round(v) ==
    IF v.k = "f64"
    THEN IF v.n >= 0 THEN F64(((v.n + 5) \div 10) * 10)
         ELSE F64(-(((5 - v.n) \div 10) * 10))
    ELSE v

\* f64::trunc: drops the fractional part, toward zero (n is in tenths).
Trunc(v) ==
    IF v.k = "f64"
    THEN IF v.n >= 0 THEN F64((v.n \div 10) * 10) ELSE F64(-(((-v.n) \div 10) * 10))
    ELSE v

\* AsI32 rounding down instead of toward zero.
AsI32_floor(v) ==
    CASE v.k = "f64" -> v.n \div 10
      [] v.k = "f64big" -> IF v.n > 0 THEN I32Max ELSE I32Min
      [] OTHER -> 0

\* 'f64 as i32': toward zero, saturating at the i32 limits, NaN becomes 0.
AsI32(v) ==
    CASE v.k = "f64" ->
           LET w == IF v.n >= 0 THEN v.n \div 10 ELSE -((-v.n) \div 10)
           IN  IF w > I32Max THEN I32Max ELSE IF w < I32Min THEN I32Min ELSE w
      [] v.k = "f64big" -> IF v.n > 0 THEN I32Max ELSE I32Min
      [] OTHER -> 0

(***************************************************************************)
(* A gst::Event.  nav tells whether event.view() is Navigation; the rest   *)
(* are the fields of its structure.                                        *)
(***************************************************************************)
BlankEvent ==
    [nav |-> TRUE, event |-> NoField, pointer_x |-> NoField, pointer_y |-> NoField,
     button |-> NoField, delta_pointer_x |-> NoField, delta_pointer_y |-> NoField,
     key |-> NoField]

NonNavEvent == [BlankEvent EXCEPT !.nav = FALSE]

NamedEvent(name) == [BlankEvent EXCEPT !.event = Str(name)]

MouseMoveEvent(x, y) ==
    [BlankEvent EXCEPT !.event = Str("mouse-move"), !.pointer_x = x, !.pointer_y = y]

ButtonEvent(name, b) == [BlankEvent EXCEPT !.event = Str(name), !.button = b]

ScrollEvent(dx, dy) ==
    [BlankEvent EXCEPT !.event = Str("mouse-scroll"),
                       !.delta_pointer_x = dx, !.delta_pointer_y = dy]

KeyEvent(name, key) == [BlankEvent EXCEPT !.event = Str(name), !.key = key]

(***************************************************************************)
(* Calls of the enigo backend.                                             *)
(***************************************************************************)
MoveMouseCall(x, y) == [op |-> "move_mouse", n1 |-> x, n2 |-> y, s1 |-> "Abs", s2 |-> ""]

ButtonCall(button, direction) ==
    [op |-> "button", n1 |-> 0, n2 |-> 0, s1 |-> button, s2 |-> direction]

ScrollCall(delta, axis) == [op |-> "scroll", n1 |-> delta, n2 |-> 0, s1 |-> axis, s2 |-> ""]

KeyCall(key, direction) == [op |-> "key", n1 |-> 0, n2 |-> 0, s1 |-> key, s2 |-> direction]

\* The modifiers enigo() releases right after construction, in source order.
ModifierKeys ==
    << "Key::CapsLock", "Key::Shift", "Key::LShift", "Key::RShift", "Key::Control",
       "Key::LControl", "Key::RControl", "Key::Alt", "Key::Meta" >>

(***************************************************************************)
(* What the body of a handler decides before it touches the backend:       *)
(*   kind "panic"       an expect() failed;                                *)
(*   kind "return"      the arm returns (true, in the filter) after plan;  *)
(*   kind "fallthrough" the match arm ends without return after plan;      *)
(* plan is the sequence of backend calls of the arm, log what it logged.   *)
(***************************************************************************)
Decoded(kind, plan, log) == [kind |-> kind, plan |-> plan, log |-> log]


(***************************************************************************)
(* RemoteControl::src_event (imp.rs): the arms of the match on event_name.  *)
(***************************************************************************)
\* The named-key arms of the match on key_str; "" stands for the '_' arm.
SrcEventNamedKey(str) ==
    CASE str = "Backspace" -> "Key::Backspace"
      [] str = "Delete" -> "Key::Delete"
      [] str = "Tab" -> "Key::Tab"
      [] str = "Enter" -> "Key::Return"
      [] str = "Shift" -> "Key::Shift"
      [] str = "ShiftLeft" -> "Key::LShift"
      [] str = "ShiftRight" -> "Key::RShift"
      [] str = "Control" -> "Key::Control"
      [] str = "ControlLeft" -> "Key::LControl"
      [] str = "ControlRight" -> "Key::RControl"
      [] str = "Alt" -> "Key::Alt"
      [] str = "AltLeft" -> "Key::Alt"
      [] str = "AltRight" -> "Key::Alt"
      [] str = "Meta" -> "Key::Meta"
      [] str = "MetaLeft" -> "Key::Meta"
      [] str = "MetaRight" -> "Key::Meta"
      [] str = "CapsLock" -> "Key::CapsLock"
      [] str = "Escape" -> "Key::Escape"
      [] str = "Space" -> "Key::Space"
      [] str = "PageUp" -> "Key::PageUp"
      [] str = "PageDown" -> "Key::PageDown"
      [] str = "End" -> "Key::End"
      [] str = "Home" -> "Key::Home"
      [] str = "ArrowLeft" -> "Key::LeftArrow"
      [] str = "ArrowUp" -> "Key::UpArrow"
      [] str = "ArrowRight" -> "Key::RightArrow"
      [] str = "ArrowDown" -> "Key::DownArrow"
      [] str = "F1" -> "Key::F1"
      [] str = "F2" -> "Key::F2"
      [] str = "F3" -> "Key::F3"
      [] str = "F4" -> "Key::F4"
      [] str = "F5" -> "Key::F5"
      [] str = "F6" -> "Key::F6"
      [] str = "F7" -> "Key::F7"
      [] str = "F8" -> "Key::F8"
      [] str = "F9" -> "Key::F9"
      [] str = "F10" -> "Key::F10"
      [] str = "F11" -> "Key::F11"
      [] str = "F12" -> "Key::F12"
      [] str = "F13" -> "Key::F13"
      [] str = "F14" -> "Key::F14"
      [] str = "F15" -> "Key::F15"
      [] str = "F16" -> "Key::F16"
      [] str = "F17" -> "Key::F17"
      [] str = "F18" -> "Key::F18"
      [] str = "F19" -> "Key::F19"
      [] str = "F20" -> "Key::F20"
      [] OTHER -> ""

SrcEventMouseMove(e) ==
    IF ~IsF64(e.pointer_x) THEN Decoded("panic", <<>>, <<"panic: Missing 'pointer_x'">>)
    ELSE IF ~IsF64(e.pointer_y) THEN Decoded("panic", <<>>, <<"panic: Missing 'pointer_y'">>)
    ELSE Decoded("return",
                 <<MoveMouseCall(AsI32(Trunc(e.pointer_x)), AsI32(Trunc(e.pointer_y)))>>,
                 <<"debug: Mouse moved to">>)

\* SrcEventButton with the Middle and Right arms exchanged.
SrcEventButton_swapped(e) ==
    LET logged == <<"error: Mouse button">>
    IN  IF ~IsI32(e.button)
        THEN Decoded("panic", <<>>, logged \o <<"panic: Missing 'button'">>)
        ELSE LET evt_button == e.button.n
                 button == IF evt_button = 1 THEN "Left"
                           ELSE IF evt_button = 2 THEN "Right" ELSE "Middle"
                 direction == IF e.event.s = "mouse-button-press" THEN "Press" ELSE "Release"
             IN  IF evt_button >= 1 /\ evt_button <= 3
                 THEN Decoded("return", <<ButtonCall(button, direction)>>, logged)
                 ELSE Decoded("fallthrough", <<>>, logged)

SrcEventButton(e) ==
    LET logged == <<"error: Mouse button">>
    IN  IF ~IsI32(e.button)
        THEN Decoded("panic", <<>>, logged \o <<"panic: Missing 'button'">>)
        ELSE LET evt_button == e.button.n
                 button == IF evt_button = 1 THEN "Left"
                           ELSE IF evt_button = 2 THEN "Middle" ELSE "Right"
                 direction == IF e.event.s = "mouse-button-press" THEN "Press" ELSE "Release"
             IN  IF evt_button >= 1 /\ evt_button <= 3
                 THEN Decoded("return", <<ButtonCall(button, direction)>>, logged)
                 ELSE Decoded("fallthrough", <<>>, logged)

\* SrcEventScroll scrolling vertically before horizontally.
SrcEventScroll_verticalFirst(e) ==
    LET logged == <<"error: Mouse scroll">>
    IN  IF ~IsF64(e.delta_pointer_x)
        THEN Decoded("panic", <<>>, logged \o <<"panic: Missing 'delta_pointer_x'">>)
        ELSE IF ~IsF64(e.delta_pointer_y)
        THEN Decoded("panic", <<>>, logged \o <<"panic: Missing 'delta_pointer_y'">>)
        ELSE LET delta_x == AsI32(e.delta_pointer_x)
                 delta_y == AsI32(e.delta_pointer_y)
             IN  Decoded("fallthrough",
                         (IF delta_y /= 0 THEN <<ScrollCall(delta_y, "Vertical")>> ELSE <<>>)
                           \o (IF delta_x /= 0 THEN <<ScrollCall(delta_x, "Horizontal")>> ELSE <<>>),
                         logged)

\* The mouse-scroll arm.
SrcEventScroll(e) ==
    LET logged == <<"error: Mouse scroll">>
    IN  IF ~IsF64(e.delta_pointer_x)
        THEN Decoded("panic", <<>>, logged \o <<"panic: Missing 'delta_pointer_x'">>)
        ELSE IF ~IsF64(e.delta_pointer_y)
        THEN Decoded("panic", <<>>, logged \o <<"panic: Missing 'delta_pointer_y'">>)
        ELSE LET delta_x == AsI32(e.delta_pointer_x)
                 delta_y == AsI32(e.delta_pointer_y)
             IN  Decoded("fallthrough",
                         (IF delta_x /= 0 THEN <<ScrollCall(delta_x, "Horizontal")>> ELSE <<>>)
                           \o (IF delta_y /= 0 THEN <<ScrollCall(delta_y, "Vertical")>> ELSE <<>>),
                         logged)

\* SrcEventKeyStr counting the characters before it looks at the key table.
SrcEventKeyStr_lengthFirst(e) ==
    LET logged == <<"error: Key something">>
        keyLogged == <<"error: Key">>
        direction == IF e.event.s = "key-press" THEN "Press" ELSE "Release"
        key_str == e.key.s
        named == SrcEventNamedKey(key_str)
    IN  IF Len(key_str) = 0
        THEN Decoded("return", <<>>, logged \o <<"error: Empty 'key'">>)
        ELSE IF Len(key_str) > 1
        THEN Decoded("return", <<>>, logged \o <<"error: Multi-character 'key'">>)
        ELSE IF named /= ""
        THEN Decoded("return", <<KeyCall(named, direction)>>, logged \o keyLogged)
        ELSE Decoded("return", <<KeyCall("Key::Unicode(" \o key_str \o ")", direction)>>,
                     logged \o keyLogged)

\* SrcEventKeyStr leaving the match instead of returning on a key that does not decode.
SrcEventKeyStr_forwardOnError(e) ==
    LET logged == <<"error: Key something">>
        keyLogged == <<"error: Key">>
        direction == IF e.event.s = "key-press" THEN "Press" ELSE "Release"
        key_str == e.key.s
        named == SrcEventNamedKey(key_str)
    IN  IF named /= ""
        THEN Decoded("return", <<KeyCall(named, direction)>>, logged \o keyLogged)
        ELSE IF Len(key_str) = 0
        THEN Decoded("fallthrough", <<>>, logged \o <<"error: Empty 'key'">>)
        ELSE IF Len(key_str) > 1
        THEN Decoded("fallthrough", <<>>, logged \o <<"error: Multi-character 'key'">>)
        ELSE Decoded("return", <<KeyCall("Key::Unicode(" \o key_str \o ")", direction)>>,
                     logged \o keyLogged)

\* The Ok(key_str) arm: the key table, then the single-character fallback.
SrcEventKeyStr(e) ==
    LET logged == <<"error: Key something">>
        keyLogged == <<"error: Key">>
        direction == IF e.event.s = "key-press" THEN "Press" ELSE "Release"
        key_str == e.key.s
        named == SrcEventNamedKey(key_str)
    IN  IF named /= ""
        THEN Decoded("return", <<KeyCall(named, direction)>>, logged \o keyLogged)
        ELSE IF Len(key_str) = 0
        THEN Decoded("return", <<>>, logged \o <<"error: Empty 'key'">>)
        ELSE IF Len(key_str) > 1
        THEN Decoded("return", <<>>, logged \o <<"error: Multi-character 'key'">>)
        ELSE Decoded("return", <<KeyCall("Key::Unicode(" \o key_str \o ")", direction)>>,
                     logged \o keyLogged)

\* SrcEventKey taking the key with expect(), as the other arms take their fields.
SrcEventKey_expect(e) ==
    IF ~IsStr(e.key)
    THEN Decoded("panic", <<>>, <<"error: Key something", "panic: Missing 'key'">>)
    ELSE SrcEventKeyStr(e)

SrcEventKey(e) ==
    IF ~IsStr(e.key)
    THEN Decoded("return", <<>>, <<"error: Key something", "error: 'key' not found">>)
    ELSE SrcEventKeyStr(e)

\* SrcEventBody returning true in the '_' arm instead of falling through.
SrcEventBody_swallow(e) ==
    IF ~e.nav THEN Decoded("fallthrough", <<>>, <<"error: Not a navigation event">>)
    ELSE IF ~IsStr(e.event)
    THEN Decoded("panic", <<>>,
                 <<"panic: 'GstNavigation event should have a property 'event'">>)
    ELSE LET event_name == e.event.s
         IN  CASE event_name = "mouse-move" -> SrcEventMouseMove(e)
               [] event_name \in {"mouse-button-press", "mouse-button-release"} ->
                    SrcEventButton(e)
               [] event_name = "mouse-scroll" -> SrcEventScroll(e)
               [] event_name \in {"key-press", "key-release"} -> SrcEventKey(e)
               [] OTHER -> Decoded("return", <<>>, <<"error: Unhandled navigation event">>)

\* The body up to the first backend access.
SrcEventBody(e) ==
    IF ~e.nav THEN Decoded("fallthrough", <<>>, <<"error: Not a navigation event">>)
    ELSE IF ~IsStr(e.event)
    THEN Decoded("panic", <<>>,
                 <<"panic: 'GstNavigation event should have a property 'event'">>)
    ELSE LET event_name == e.event.s
         IN  CASE event_name = "mouse-move" -> SrcEventMouseMove(e)
               [] event_name \in {"mouse-button-press", "mouse-button-release"} ->
                    SrcEventButton(e)
               [] event_name = "mouse-scroll" -> SrcEventScroll(e)
               [] event_name \in {"key-press", "key-release"} -> SrcEventKey(e)
               [] OTHER ->
                    Decoded("fallthrough", <<>>, <<"error: Unhandled navigation event">>)

\* What the handler logs when a backend call returns Err.
SrcEventErrLog(call) ==
    IF call.op = "key" THEN <<"error: Failed to send key event">> ELSE <<>>

(***************************************************************************)
(* handle_remotecontrol_event (webrtcsink/remotecontrol.rs): the arms of    *)
(* the match on event_name.                                                *)
(***************************************************************************)
\* HandleNamedKey telling the left Alt and Meta apart and folding the left
\* Shift and Control into the unqualified key; the other names as in the
\* filter's table.
HandleNamedKey_otherSides(str) ==
    CASE str = "AltLeft" -> "Key::LAlt"
      [] str = "MetaLeft" -> "Key::LMeta"
      [] str = "ShiftLeft" -> "Key::Shift"
      [] str = "ControlLeft" -> "Key::Control"
      [] OTHER -> SrcEventNamedKey(str)

\* The named-key arms of the match on key_str; "" stands for the '_' arm.
HandleNamedKey(str) ==
    CASE str = "Backspace" -> "Key::Backspace"
      [] str = "Delete" -> "Key::Delete"
      [] str = "Tab" -> "Key::Tab"
      [] str = "Enter" -> "Key::Return"
      [] str = "Shift" -> "Key::Shift"
      [] str = "ShiftLeft" -> "Key::LShift"
      [] str = "ShiftRight" -> "Key::RShift"
      [] str = "Control" -> "Key::Control"
      [] str = "ControlLeft" -> "Key::LControl"
      [] str = "ControlRight" -> "Key::RControl"
      [] str = "Alt" -> "Key::Alt"
      [] str = "AltLeft" -> "Key::Alt"
      [] str = "AltRight" -> "Key::Alt"
      [] str = "Meta" -> "Key::Meta"
      [] str = "MetaLeft" -> "Key::Meta"
      [] str = "MetaRight" -> "Key::Meta"
      [] str = "CapsLock" -> "Key::CapsLock"
      [] str = "Escape" -> "Key::Escape"
      [] str = "Space" -> "Key::Space"
      [] str = "PageUp" -> "Key::PageUp"
      [] str = "PageDown" -> "Key::PageDown"
      [] str = "End" -> "Key::End"
      [] str = "Home" -> "Key::Home"
      [] str = "ArrowLeft" -> "Key::LeftArrow"
      [] str = "ArrowUp" -> "Key::UpArrow"
      [] str = "ArrowRight" -> "Key::RightArrow"
      [] str = "ArrowDown" -> "Key::DownArrow"
      [] str = "F1" -> "Key::F1"
      [] str = "F2" -> "Key::F2"
      [] str = "F3" -> "Key::F3"
      [] str = "F4" -> "Key::F4"
      [] str = "F5" -> "Key::F5"
      [] str = "F6" -> "Key::F6"
      [] str = "F7" -> "Key::F7"
      [] str = "F8" -> "Key::F8"
      [] str = "F9" -> "Key::F9"
      [] str = "F10" -> "Key::F10"
      [] str = "F11" -> "Key::F11"
      [] str = "F12" -> "Key::F12"
      [] str = "F13" -> "Key::F13"
      [] str = "F14" -> "Key::F14"
      [] str = "F15" -> "Key::F15"
      [] str = "F16" -> "Key::F16"
      [] str = "F17" -> "Key::F17"
      [] str = "F18" -> "Key::F18"
      [] str = "F19" -> "Key::F19"
      [] str = "F20" -> "Key::F20"
      [] OTHER -> ""

\* HandleMouseMove passing the coordinates in the other order.
HandleMouseMove_swapXY(e) ==
    IF ~IsF64(e.pointer_x) THEN Decoded("panic", <<>>, <<"panic: Missing 'pointer_x'">>)
    ELSE IF ~IsF64(e.pointer_y) THEN Decoded("panic", <<>>, <<"panic: Missing 'pointer_y'">>)
    ELSE Decoded("return",
                 <<MoveMouseCall(AsI32(Trunc(e.pointer_y)), AsI32(Trunc(e.pointer_x)))>>,
                 <<"debug: Mouse moved to">>)

\* The mouse-move arm.
HandleMouseMove(e) ==
    IF ~IsF64(e.pointer_x) THEN Decoded("panic", <<>>, <<"panic: Missing 'pointer_x'">>)
    ELSE IF ~IsF64(e.pointer_y) THEN Decoded("panic", <<>>, <<"panic: Missing 'pointer_y'">>)
    ELSE Decoded("return",
                 <<MoveMouseCall(AsI32(Trunc(e.pointer_x)), AsI32(Trunc(e.pointer_y)))>>,
                 <<"debug: Mouse moved to">>)

\* HandleButton without the upper limit of the range check.
HandleButton_noUpperLimit(e) ==
    LET logged == <<"debug: Mouse button">>
    IN  IF ~IsI32(e.button)
        THEN Decoded("panic", <<>>, logged \o <<"panic: Missing 'button'">>)
        ELSE LET evt_button == e.button.n
                 button == IF evt_button = 1 THEN "Left"
                           ELSE IF evt_button = 2 THEN "Middle" ELSE "Right"
                 direction == IF e.event.s = "mouse-button-press" THEN "Press" ELSE "Release"
             IN  IF evt_button >= 1
                 THEN Decoded("return", <<ButtonCall(button, direction)>>, logged)
                 ELSE Decoded("fallthrough", <<>>, logged)

HandleButton(e) ==
    LET logged == <<"debug: Mouse button">>
    IN  IF ~IsI32(e.button)
        THEN Decoded("panic", <<>>, logged \o <<"panic: Missing 'button'">>)
        ELSE LET evt_button == e.button.n
                 button == IF evt_button = 1 THEN "Left"
                           ELSE IF evt_button = 2 THEN "Middle" ELSE "Right"
                 direction == IF e.event.s = "mouse-button-press" THEN "Press" ELSE "Release"
             IN  IF evt_button >= 1 /\ evt_button <= 3
                 THEN Decoded("return", <<ButtonCall(button, direction)>>, logged)
                 ELSE Decoded("fallthrough", <<>>, logged)

\* HandleScroll issuing both scrolls whatever the deltas.
HandleScroll_noZeroCheck(e) ==
    LET logged == <<"debug: Mouse scroll">>
    IN  IF ~IsF64(e.delta_pointer_x)
        THEN Decoded("panic", <<>>, logged \o <<"panic: Missing 'delta_pointer_x'">>)
        ELSE IF ~IsF64(e.delta_pointer_y)
        THEN Decoded("panic", <<>>, logged \o <<"panic: Missing 'delta_pointer_y'">>)
        ELSE LET delta_x == AsI32(e.delta_pointer_x)
                 delta_y == AsI32(e.delta_pointer_y)
             IN  Decoded("fallthrough",
                         <<ScrollCall(delta_x, "Horizontal"), ScrollCall(delta_y, "Vertical")>>,
                         logged)

\* The mouse-scroll arm.
HandleScroll(e) ==
    LET logged == <<"debug: Mouse scroll">>
    IN  IF ~IsF64(e.delta_pointer_x)
        THEN Decoded("panic", <<>>, logged \o <<"panic: Missing 'delta_pointer_x'">>)
        ELSE IF ~IsF64(e.delta_pointer_y)
        THEN Decoded("panic", <<>>, logged \o <<"panic: Missing 'delta_pointer_y'">>)
        ELSE LET delta_x == AsI32(e.delta_pointer_x)
                 delta_y == AsI32(e.delta_pointer_y)
             IN  Decoded("fallthrough",
                         (IF delta_x /= 0 THEN <<ScrollCall(delta_x, "Horizontal")>> ELSE <<>>)
                           \o (IF delta_y /= 0 THEN <<ScrollCall(delta_y, "Vertical")>> ELSE <<>>),
                         logged)

\* The Ok(key_str) arm: the key table, then the single-character fallback.
HandleKeyStr(e) ==
    LET logged == <<"debug: Key press or release">>
        keyLogged == <<>>
        direction == IF e.event.s = "key-press" THEN "Press" ELSE "Release"
        key_str == e.key.s
        named == HandleNamedKey(key_str)
    IN  IF named /= ""
        THEN Decoded("return", <<KeyCall(named, direction)>>, logged \o keyLogged)
        ELSE IF Len(key_str) = 0
        THEN Decoded("return", <<>>, logged \o <<"error: Empty 'key'">>)
        ELSE IF Len(key_str) > 1
        THEN Decoded("return", <<>>, logged \o <<"error: Multi-character 'key'">>)
        ELSE Decoded("return", <<KeyCall("Key::Unicode(" \o key_str \o ")", direction)>>,
                     logged \o keyLogged)

HandleKey(e) ==
    IF ~IsStr(e.key)
    THEN Decoded("return", <<>>, <<"debug: Key press or release", "warning: 'key' not found">>)
    ELSE HandleKeyStr(e)

\* The body up to the first backend access.
HandleBody(e) ==
    IF ~e.nav THEN Decoded("fallthrough", <<>>, <<"debug: Not a navigation event">>)
    ELSE IF ~IsStr(e.event)
    THEN Decoded("panic", <<>>,
                 <<"panic: 'GstNavigation event should have a property 'event'">>)
    ELSE LET event_name == e.event.s
         IN  CASE event_name = "mouse-move" -> HandleMouseMove(e)
               [] event_name \in {"mouse-button-press", "mouse-button-release"} ->
                    HandleButton(e)
               [] event_name = "mouse-scroll" -> HandleScroll(e)
               [] event_name \in {"key-press", "key-release"} -> HandleKey(e)
               [] OTHER ->
                    Decoded("fallthrough", <<>>, <<"error: Unhandled navigation event">>)

\* What the handler logs when a backend call returns Err.
HandleErrLog(call) ==
    CASE call.op = "move_mouse" -> <<"warning: Mouse move did not succeed">>
      [] call.op = "button" -> <<"warning: Mouse press or release did not succeed">>
      [] call.op = "scroll" -> <<"warning: Mouse scroll did not succeed">>
      [] OTHER -> <<"warning: Key press or release did not succeed">>


(***************************************************************************)
(* State.                                                                  *)
(*   INIT, GLOBAL_ENIGO  the two statics of each file (0 is None, k > 0    *)
(*                       is the k-th Enigo constructed in the process)     *)
(*   constructed         successful Enigo::new calls, per file             *)
(*   newEnigo            the local 'enigo' of the call_once closure        *)
(*   released            the Release calls the closure has issued          *)
(*   releaseFailed       whether one of them returned Err                  *)
(*   panicked            the element's flag kept by                        *)
(*                       catch_panic_pad_function                          *)
(* and per thread: where it is (pc), which handler it runs (shape), the    *)
(* event, the backend calls still to make (plan) and how the arm ends      *)
(* (after), the calls made, the log, the pushes through the sink pad, the  *)
(* backend reference it holds (ref), how the handler was left (exit) and   *)
(* what the caller got (ret).                                              *)
(***************************************************************************)
VARIABLES INIT, GLOBAL_ENIGO, constructed, newEnigo, released, releaseFailed, panicked,
          pc, shape, ev, plan, after, calls, log, pushed, ref, exit, ret,
          sunk, srcpad

statics == <<INIT, GLOBAL_ENIGO, constructed, newEnigo, released, releaseFailed>>

locals == <<pc, shape, ev, plan, after, calls, log, pushed, ref, exit, ret>>

\* The forward direction: what the sink pad's functions were called with and
\* what went out through self.srcpad.
forward == <<sunk, srcpad>>

vars == <<INIT, GLOBAL_ENIGO, constructed, newEnigo, released, releaseFailed, panicked,
          pc, shape, ev, plan, after, calls, log, pushed, ref, exit, ret, sunk, srcpad>>

Init ==
    /\ INIT = [m \in Modules |-> "INCOMPLETE"]
    /\ GLOBAL_ENIGO = [m \in Modules |-> 0]
    /\ constructed = [m \in Modules |-> 0]
    /\ newEnigo = [m \in Modules |-> 0]
    /\ released = [m \in Modules |-> <<>>]
    /\ releaseFailed = [m \in Modules |-> FALSE]
    /\ panicked = FALSE
    /\ pc = [t \in Threads |-> "idle"]
    /\ shape = [t \in Threads |-> "filter"]
    /\ ev = [t \in Threads |-> BlankEvent]
    /\ plan = [t \in Threads |-> <<>>]
    /\ after = [t \in Threads |-> "return"]
    /\ calls = [t \in Threads |-> <<>>]
    /\ log = [t \in Threads |-> <<>>]
    /\ pushed = [t \in Threads |-> <<>>]
    /\ ref = [t \in Threads |-> 0]
    /\ exit = [t \in Threads |-> "none"]
    /\ ret = [t \in Threads |-> "none"]
    /\ sunk = <<>>
    /\ srcpad = <<>>

(***************************************************************************)
(* Leaving a handler.  kind is how the body ends; r is what the upstream   *)
(* peer answers to a pushed event.                                         *)
(*   panic:  in the filter, catch_panic_pad_function catches it, sets the  *)
(*           element's panicked flag, posts an error message and returns   *)
(*           the fallback (false); the standalone handler has no catch,    *)
(*           the panic unwinds into its caller.                            *)
(*   return: src_event returns true, the standalone handler returns ().    *)
(*   fallthrough: src_event pushes the event through the sink pad and      *)
(*           returns the result; the standalone handler returns ().        *)
(***************************************************************************)
Leave(t, m, e, kind, lg, r) ==
    /\ pc' = [pc EXCEPT ![t] = "done"]
    /\ plan' = [plan EXCEPT ![t] = <<>>]
    /\ ref' = [ref EXCEPT ![t] = 0]
    /\ CASE kind = "panic" /\ m = "filter" ->
              /\ panicked' = TRUE
              /\ exit' = [exit EXCEPT ![t] = "caught"]
              /\ ret' = [ret EXCEPT ![t] = "false"]
              /\ log' = [log EXCEPT ![t] = lg \o <<"bus: panicked">>]
              /\ pushed' = pushed
         [] kind = "panic" /\ m = "webrtc" ->
              /\ exit' = [exit EXCEPT ![t] = "unwound"]
              /\ ret' = [ret EXCEPT ![t] = "panic"]
              /\ log' = [log EXCEPT ![t] = lg]
              /\ UNCHANGED <<panicked, pushed>>
         [] kind = "fallthrough" /\ m = "filter" ->
              /\ pushed' = [pushed EXCEPT ![t] = Append(@, [ev |-> e, res |-> r])]
              /\ exit' = [exit EXCEPT ![t] = "return"]
              /\ ret' = [ret EXCEPT ![t] = IF r THEN "true" ELSE "false"]
              /\ log' = [log EXCEPT ![t] = lg]
              /\ panicked' = panicked
         [] OTHER ->
              /\ exit' = [exit EXCEPT ![t] = "return"]
              /\ ret' = [ret EXCEPT ![t] = IF m = "filter" THEN "true" ELSE "unit"]
              /\ log' = [log EXCEPT ![t] = lg]
              /\ UNCHANGED <<panicked, pushed>>

\* The body has decoded the event to d: it leaves, or goes on to the backend.
Enter(t, m, e, d, r) ==
    /\ shape' = [shape EXCEPT ![t] = m]
    /\ ev' = [ev EXCEPT ![t] = e]
    /\ calls' = [calls EXCEPT ![t] = <<>>]
    /\ IF d.kind = "panic" \/ d.plan = <<>>
       THEN /\ Leave(t, m, e, d.kind, d.log, r)
            /\ after' = after
       ELSE /\ pc' = [pc EXCEPT ![t] = "enigo"]
            /\ plan' = [plan EXCEPT ![t] = d.plan]
            /\ after' = [after EXCEPT ![t] = d.kind]
            /\ log' = [log EXCEPT ![t] = d.log]
            /\ UNCHANGED <<panicked, pushed, ref, exit, ret>>

(***************************************************************************)
(* The src pad's event function: catch_panic_pad_function around           *)
(* src_event.  Once the element has panicked the closure is not run any    *)
(* more: an error message is posted and the fallback (false) is returned.  *)
(***************************************************************************)
SrcEvent(t, e, r) ==
    /\ pc[t] = "idle"
    /\ IF panicked
       THEN /\ pc' = [pc EXCEPT ![t] = "done"]
            /\ shape' = [shape EXCEPT ![t] = "filter"]
            /\ ev' = [ev EXCEPT ![t] = e]
            /\ exit' = [exit EXCEPT ![t] = "skipped"]
            /\ ret' = [ret EXCEPT ![t] = "false"]
            /\ log' = [log EXCEPT ![t] = <<"bus: panicked">>]
            /\ UNCHANGED <<panicked, plan, after, calls, pushed, ref>>
       ELSE Enter(t, "filter", e, SrcEventBody(e), r)
    /\ UNCHANGED statics
    /\ UNCHANGED forward

\* handle_remotecontrol_event, called directly by the host.
Handle(t, e) ==
    /\ pc[t] = "idle"
    /\ Enter(t, "webrtc", e, HandleBody(e), FALSE)
    /\ UNCHANGED statics
    /\ UNCHANGED forward

(***************************************************************************)
(* enigo().  INIT.call_once: the first caller runs the closure, a caller   *)
(* that arrives while it runs waits, a caller that arrives after the       *)
(* closure panicked panics (the Once is poisoned), every other caller goes *)
(* on to GLOBAL_ENIGO.as_mut().unwrap().  The reference is used for the    *)
(* backend call at once.                                                   *)
(***************************************************************************)
\* A call_once that lets a caller through while the closure is still running.
CallOnceWaits_never(m) == FALSE

CallOnceWaits(m) == INIT[m] = "RUNNING"

EnigoCallOnce(t) ==
    LET m == shape[t]
    IN  /\ pc[t] = "enigo"
        /\ ~CallOnceWaits(m)
        /\ CASE INIT[m] = "INCOMPLETE" ->
                  /\ INIT' = [INIT EXCEPT ![m] = "RUNNING"]
                  /\ pc' = [pc EXCEPT ![t] = "new"]
                  /\ UNCHANGED <<GLOBAL_ENIGO, constructed, newEnigo, released, releaseFailed,
                                 panicked, shape, ev, plan, after, calls, log, pushed, ref,
                                 exit, ret>>
             [] INIT[m] = "POISONED" ->
                  /\ Leave(t, m, ev[t], "panic",
                           log[t] \o <<"panic: Once instance has previously been poisoned">>,
                           FALSE)
                  /\ UNCHANGED <<statics, shape, ev, after, calls>>
             [] OTHER ->
                  IF GLOBAL_ENIGO[m] = 0
                  THEN /\ Leave(t, m, ev[t], "panic",
                                log[t] \o <<"panic: called Option::unwrap() on a None value">>,
                                FALSE)
                       /\ UNCHANGED <<statics, shape, ev, after, calls>>
                  ELSE /\ ref' = [ref EXCEPT ![t] = GLOBAL_ENIGO[m]]
                       /\ pc' = [pc EXCEPT ![t] = "incall"]
                       /\ UNCHANGED <<statics, panicked, shape, ev, plan, after, calls, log,
                                      pushed, exit, ret>>
        /\ UNCHANGED forward

\* Enigo::new(&Settings::default()).expect("Failed to create enigo")
EnigoNew(t, ok) ==
    LET m == shape[t]
    IN  /\ pc[t] = "new"
        /\ IF ok
           THEN /\ constructed' = [constructed EXCEPT ![m] = @ + 1]
                /\ newEnigo' = [newEnigo EXCEPT ![m] =
                                   constructed["filter"] + constructed["webrtc"] + 1]
                /\ pc' = [pc EXCEPT ![t] = "release"]
                /\ UNCHANGED <<INIT, GLOBAL_ENIGO, released, releaseFailed, panicked, shape,
                               ev, plan, after, calls, log, pushed, ref, exit, ret>>
           ELSE /\ INIT' = [INIT EXCEPT ![m] = "POISONED"]
                /\ Leave(t, m, ev[t], "panic",
                         log[t] \o <<"panic: Failed to create enigo">>, FALSE)
                /\ UNCHANGED <<GLOBAL_ENIGO, constructed, newEnigo, released, releaseFailed,
                               shape, ev, after, calls>>
        /\ UNCHANGED forward

\* EnigoRelease with the result of the release unwrapped instead of dropped.
EnigoRelease_abortOnErr(t, ok) ==
    LET m == shape[t]
    IN  /\ pc[t] = "release"
        /\ Len(released[m]) < Len(ModifierKeys)
        /\ released' = [released EXCEPT ![m] = Append(@, ModifierKeys[Len(@) + 1])]
        /\ releaseFailed' = [releaseFailed EXCEPT ![m] = @ \/ ~ok]
        /\ IF ok
           THEN UNCHANGED <<INIT, GLOBAL_ENIGO, constructed, newEnigo, panicked, locals>>
           ELSE /\ INIT' = [INIT EXCEPT ![m] = "POISONED"]
                /\ Leave(t, m, ev[t], "panic",
                         log[t] \o <<"panic: Failed to release modifier">>, FALSE)
                /\ UNCHANGED <<GLOBAL_ENIGO, constructed, newEnigo, shape, ev, after, calls>>
        /\ UNCHANGED forward

\* One turn of the loop over the modifiers: enigo.key(key, Direction::Release),
\* its result dropped.
EnigoRelease(t, ok) ==
    LET m == shape[t]
    IN  /\ pc[t] = "release"
        /\ Len(released[m]) < Len(ModifierKeys)
        /\ released' = [released EXCEPT ![m] = Append(@, ModifierKeys[Len(@) + 1])]
        /\ releaseFailed' = [releaseFailed EXCEPT ![m] = @ \/ ~ok]
        /\ UNCHANGED <<INIT, GLOBAL_ENIGO, constructed, newEnigo, panicked, locals>>
        /\ UNCHANGED forward

\* EnigoStore with a Once that forgets it has run.
EnigoStore_noComplete(t) ==
    LET m == shape[t]
    IN  /\ pc[t] = "release"
        /\ Len(released[m]) >= Len(ModifierKeys)
        /\ GLOBAL_ENIGO' = [GLOBAL_ENIGO EXCEPT ![m] = newEnigo[m]]
        /\ newEnigo' = [newEnigo EXCEPT ![m] = 0]
        /\ INIT' = [INIT EXCEPT ![m] = "INCOMPLETE"]
        /\ ref' = [ref EXCEPT ![t] = newEnigo[m]]
        /\ pc' = [pc EXCEPT ![t] = "incall"]
        /\ UNCHANGED <<constructed, released, releaseFailed, panicked, shape, ev, plan,
                       after, calls, log, pushed, exit, ret>>
        /\ UNCHANGED forward

\* GLOBAL_ENIGO = Some(enigo); call_once returns; as_mut().unwrap().
EnigoStore(t) ==
    LET m == shape[t]
    IN  /\ pc[t] = "release"
        /\ Len(released[m]) >= Len(ModifierKeys)
        /\ GLOBAL_ENIGO' = [GLOBAL_ENIGO EXCEPT ![m] = newEnigo[m]]
        /\ newEnigo' = [newEnigo EXCEPT ![m] = 0]
        /\ INIT' = [INIT EXCEPT ![m] = "COMPLETE"]
        /\ ref' = [ref EXCEPT ![t] = newEnigo[m]]
        /\ pc' = [pc EXCEPT ![t] = "incall"]
        /\ UNCHANGED <<constructed, released, releaseFailed, panicked, shape, ev, plan,
                       after, calls, log, pushed, exit, ret>>
        /\ UNCHANGED forward

(***************************************************************************)
(* The backend call in progress returns Ok or Err.  An Err is logged (the  *)
(* filter logs only a failed key call) and the handler goes on: to the     *)
(* next enigo() call of the arm, or to the end of the arm.                 *)
(***************************************************************************)
\* CallEnd with the Result of the backend call unwrapped: an Err panics.
CallEnd_unwrap(t, ok, r) ==
    LET m == shape[t]
        call == Head(plan[t])
    IN  /\ pc[t] = "incall"
        /\ calls' = [calls EXCEPT ![t] = Append(@, [call |-> call, ok |-> ok, on |-> ref[t]])]
        /\ IF ~ok
           THEN Leave(t, m, ev[t], "panic",
                      log[t] \o <<"panic: called Result::unwrap() on an Err value">>, r)
           ELSE IF Tail(plan[t]) = <<>>
           THEN Leave(t, m, ev[t], after[t], log[t], r)
           ELSE /\ pc' = [pc EXCEPT ![t] = "enigo"]
                /\ plan' = [plan EXCEPT ![t] = Tail(@)]
                /\ ref' = [ref EXCEPT ![t] = 0]
                /\ UNCHANGED <<panicked, log, pushed, exit, ret>>
        /\ UNCHANGED <<statics, shape, ev, after>>
        /\ UNCHANGED forward

CallEnd(t, ok, r) ==
    LET m == shape[t]
        call == Head(plan[t])
        lg == log[t] \o (IF ok THEN <<>>
                         ELSE IF m = "filter" THEN SrcEventErrLog(call)
                         ELSE HandleErrLog(call))
    IN  /\ pc[t] = "incall"
        /\ calls' = [calls EXCEPT ![t] = Append(@, [call |-> call, ok |-> ok, on |-> ref[t]])]
        /\ IF Tail(plan[t]) = <<>>
           THEN Leave(t, m, ev[t], after[t], lg, r)
           ELSE /\ pc' = [pc EXCEPT ![t] = "enigo"]
                /\ plan' = [plan EXCEPT ![t] = Tail(@)]
                /\ ref' = [ref EXCEPT ![t] = 0]
                /\ log' = [log EXCEPT ![t] = lg]
                /\ UNCHANGED <<panicked, pushed, exit, ret>>
        /\ UNCHANGED <<statics, shape, ev, after>>
        /\ UNCHANGED forward

\* The caller takes the result; the thread is free for the next event.
Return(t) ==
    /\ pc[t] = "done"
    /\ pc' = [pc EXCEPT ![t] = "idle"]
    /\ ev' = [ev EXCEPT ![t] = BlankEvent]
    /\ shape' = [shape EXCEPT ![t] = "filter"]
    /\ after' = [after EXCEPT ![t] = "return"]
    /\ calls' = [calls EXCEPT ![t] = <<>>]
    /\ log' = [log EXCEPT ![t] = <<>>]
    /\ pushed' = [pushed EXCEPT ![t] = <<>>]
    /\ exit' = [exit EXCEPT ![t] = "none"]
    /\ ret' = [ret EXCEPT ![t] = "none"]
    /\ UNCHANGED <<statics, panicked, plan, ref>>
    /\ UNCHANGED forward

(***************************************************************************)
(* The events delivered.  Events: a few of each kind, delivered by all     *)
(* threads concurrently.  WideEvents: every shape of every field,          *)
(* delivered by one thread.                                                *)
(***************************************************************************)
Events ==
    { NamedEvent("pinch-zoom"), MouseMoveEvent(NoField, F64(10)),
      ScrollEvent(F64(39), F64(-39)) }

F64Values ==
    { F64(-52), F64(-39), F64(-5), F64(0), F64(5), F64(39), F64(50),
      F64Big(1), F64Big(-1), F64NaN }

KeyNames ==
    { "Backspace", "Delete", "Tab", "Enter", "Shift", "ShiftLeft", "ShiftRight", "Control",
      "ControlLeft", "ControlRight", "Alt", "AltLeft", "AltRight", "Meta", "MetaLeft",
      "MetaRight", "CapsLock", "Escape", "Space", "PageUp", "PageDown", "End", "Home",
      "ArrowLeft", "ArrowUp", "ArrowRight", "ArrowDown", "F1", "F2", "F3", "F4", "F5", "F6",
      "F7", "F8", "F9", "F10", "F11", "F12", "F13", "F14", "F15", "F16", "F17", "F18", "F19",
      "F20" }

OtherKeyStrings == { "", "a", "A", "ab", "enter", "f1", "F21", "Return" }

WideEvents ==
    { NonNavEvent, BlankEvent, NamedEvent("pinch-zoom"), NamedEvent("Mouse-Move"),
      [BlankEvent EXCEPT !.event = I32(1)] }
    \cup { MouseMoveEvent(x, y) : x, y \in F64Values \cup {NoField, I32(3)} }
    \cup { ButtonEvent(name, b) :
             name \in {"mouse-button-press", "mouse-button-release"},
             b \in {I32(i) : i \in -1..5} \cup {NoField, F64(10), Str("1")} }
    \cup { ScrollEvent(dx, dy) : dx, dy \in F64Values \cup {NoField, I32(3)} }
    \cup { KeyEvent(name, key) :
             name \in {"key-press", "key-release"},
             key \in {Str(str) : str \in KeyNames \cup OtherKeyStrings} \cup {NoField, I32(1)} }

Step(t) ==
    \/ EnigoCallOnce(t)
    \/ \E ok \in BOOLEAN : EnigoNew(t, ok)
    \/ \E ok \in BOOLEAN : EnigoRelease(t, ok)
    \/ EnigoStore(t)
    \/ \E ok, r \in BOOLEAN : CallEnd(t, ok, r)
    \/ Return(t)

Next ==
    \E t \in Threads :
        \/ \E e \in Events, r \in BOOLEAN : SrcEvent(t, e, r)
        \/ \E e \in Events : Handle(t, e)
        \/ Step(t)

Spec == Init /\ [][Next]_vars

NextSeq ==
    \/ \E e \in WideEvents, r \in BOOLEAN : SrcEvent(1, e, r)
    \/ \E e \in WideEvents : Handle(1, e)
    \/ Step(1)

SpecSeq == Init /\ [][NextSeq]_vars

(***************************************************************************)
(* The forward direction of the filter.  The sink pad's chain and event    *)
(* functions are wrapped in catch_panic_pad_function like the src pad's    *)
(* event function: once the element has panicked they return the fallback *)
(* (Err(FlowError::Error), false) without running sink_chain / sink_event. *)
(***************************************************************************)
MaxForward == 3

Buffer(n) == [kind |-> "buffer", n |-> n, e |-> BlankEvent]

SinkPadEvent(e) == [kind |-> "event", n |-> 0, e |-> e]

\* What the downstream peer answers to srcpad.push(buffer).
FlowReturns == { "Ok(Ok)", "Err(Flushing)", "Err(Error)" }

SinkEvents == { NonNavEvent, MouseMoveEvent(F64(39), F64(-39)) }

\* The buffers that have arrived on the sink pad so far.
BuffersArrived == Len(SelectSeq(sunk, LAMBDA s : s.item.kind = "buffer"))

\* The sink pad's chain function around sink_chain: self.srcpad.push(buffer).
SinkChain(res) ==
    LET buffer == Buffer(BuffersArrived + 1)
    IN  /\ Len(sunk) < MaxForward
        /\ IF panicked
           THEN /\ sunk' = Append(sunk, [item |-> buffer, ran |-> FALSE, res |-> "none",
                                         ret |-> "Err(Error)"])
                /\ srcpad' = srcpad
           ELSE /\ sunk' = Append(sunk, [item |-> buffer, ran |-> TRUE, res |-> res,
                                         ret |-> res])
                /\ srcpad' = Append(srcpad, buffer)
        /\ UNCHANGED <<statics, panicked, locals>>

\* The sink pad's event function around sink_event:
\* self.srcpad.push_event(event); return true.
SinkEvent(e, r) ==
    LET event == SinkPadEvent(e)
    IN  /\ Len(sunk) < MaxForward
        /\ IF panicked
           THEN /\ sunk' = Append(sunk, [item |-> event, ran |-> FALSE, res |-> "none",
                                         ret |-> "false"])
                /\ srcpad' = srcpad
           ELSE /\ sunk' = Append(sunk, [item |-> event, ran |-> TRUE,
                                         res |-> IF r THEN "true" ELSE "false",
                                         ret |-> "true"])
                /\ srcpad' = Append(srcpad, event)
        /\ UNCHANGED <<statics, panicked, locals>>

\* The filter in a pipeline: buffers and events arrive on the sink pad while
\* one thread delivers navigation events to the src pad.
NextFwd ==
    \/ \E res \in FlowReturns : SinkChain(res)
    \/ \E e \in SinkEvents, r \in BOOLEAN : SinkEvent(e, r)
    \/ \E e \in Events, r \in BOOLEAN : SrcEvent(1, e, r)
    \/ Step(1)

SpecFwd == Init /\ [][NextFwd]_vars

(***************************************************************************)
(* Vocabulary of the properties: what the specification says of an event,  *)
(* stated without reference to the handlers above.                         *)
(***************************************************************************)
EventNames ==
    { "mouse-move", "mouse-button-press", "mouse-button-release", "mouse-scroll",
      "key-press", "key-release" }

IsNamed(e, names) == e.nav /\ e.event.k = "str" /\ e.event.s \in names

\* The integer part of an f64, toward zero, saturated to the i32 range.
TowardZero(v) ==
    CASE v.k = "f64" ->
           LET mag == IF v.n < 0 THEN -v.n ELSE v.n
               w == CHOOSE i \in 0..mag : i * 10 <= mag /\ mag < (i + 1) * 10
           IN  IF v.n < 0 THEN -w ELSE w
      [] v.k = "f64big" -> IF v.n < 0 THEN I32Min ELSE I32Max
      [] OTHER -> 0

\* Neither a navigation event with one of the six names, nor malformed.
Unrecognized(e) == ~e.nav \/ (e.event.k = "str" /\ e.event.s \notin EventNames)

WellFormedMove(e) ==
    IsNamed(e, {"mouse-move"}) /\ IsF64(e.pointer_x) /\ IsF64(e.pointer_y)

InRangeButton(e) ==
    /\ IsNamed(e, {"mouse-button-press", "mouse-button-release"})
    /\ e.button.k = "i32" /\ e.button.n \in 1..3

OutOfRangeButton(e) ==
    /\ IsNamed(e, {"mouse-button-press", "mouse-button-release"})
    /\ e.button.k = "i32" /\ e.button.n \notin 1..3

WellFormedScroll(e) ==
    IsNamed(e, {"mouse-scroll"}) /\ IsF64(e.delta_pointer_x) /\ IsF64(e.delta_pointer_y)

ValidKey(e) ==
    /\ IsNamed(e, {"key-press", "key-release"})
    /\ e.key.k = "str" /\ (e.key.s \in KeyNames \/ Len(e.key.s) = 1)

MissingKey(e) == IsNamed(e, {"key-press", "key-release"}) /\ e.key.k /= "str"

\* The event decodes to at least one InputAction.
Recognized(e) ==
    \/ WellFormedMove(e)
    \/ InRangeButton(e)
    \/ WellFormedScroll(e)
         /\ (TowardZero(e.delta_pointer_x) /= 0 \/ TowardZero(e.delta_pointer_y) /= 0)
    \/ ValidKey(e)

HasLog(t, msg) == \E i \in 1..Len(log[t]) : log[t][i] = msg

\* The handler of t has finished.
FilterDone(t) == pc[t] = "done" /\ shape[t] = "filter"

HandlerDone(t) == pc[t] = "done" /\ shape[t] = "webrtc"

\* The handler was left by the panic of a failed backend access in enigo().
BackendUnavailable(t) ==
    /\ exit[t] \in {"caught", "unwound"}
    /\ \/ HasLog(t, "panic: Failed to create enigo")
       \/ HasLog(t, "panic: Once instance has previously been poisoned")

\* The backend calls t has made for its event, in order.
CallsMade(t) == [i \in 1..Len(calls[t]) |-> calls[t][i].call]

(***************************************************************************)
(* C1.  In the Inline Filter every navigation event that decodes to a      *)
(* recognized InputAction is executed on the backend and consumed: it is   *)
(* never pushed upstream through the sink pad.                             *)
(* Stated as written; src_event's mouse-scroll arm has no 'return true'    *)
(* and falls through to sinkpad.push_event.                                *)
(***************************************************************************)
C1_RecognizedIsConsumed ==
    \A t \in Threads :
        FilterDone(t) /\ Recognized(ev[t]) =>
            /\ pushed[t] = <<>>
            /\ exit[t] = "return" => calls[t] /= <<>>

(***************************************************************************)
(* C2.  handle_remotecontrol_event returns normally for every event and    *)
(* every backend outcome: no panic ever reaches its caller.                *)
(* Stated as written; the expect() calls on the event's fields, and the    *)
(* expect() in enigo(), panic in the caller's thread.                      *)
(***************************************************************************)
C2_HandlerAlwaysReturns ==
    \A t \in Threads : HandlerDone(t) => exit[t] = "return" /\ ret[t] = "unit"

(***************************************************************************)
(* C3.  When several callers race on their first call to enigo(), the      *)
(* backend of that enigo() is constructed exactly once; a caller that      *)
(* holds a backend reference holds the one stored instance, and holds it   *)
(* only after construction and all nine modifier releases are done; no     *)
(* caller finds GLOBAL_ENIGO absent.                                       *)
(***************************************************************************)
C3_OnceInitialised ==
    /\ \A m \in Modules : constructed[m] <= 1
    /\ \A t \in Threads :
           /\ ~HasLog(t, "panic: called Option::unwrap() on a None value")
           /\ ref[t] /= 0 =>
                  /\ ref[t] = GLOBAL_ENIGO[shape[t]]
                  /\ INIT[shape[t]] = "COMPLETE"
                  /\ constructed[shape[t]] = 1
                  /\ released[shape[t]] = ModifierKeys

\* Two callers of the same enigo() hold the same backend.
C3_TwoCallersOneBackend ==
    \E t1, t2 \in Threads :
        /\ t1 /= t2 /\ shape[t1] = shape[t2]
        /\ ref[t1] /= 0 /\ ref[t1] = ref[t2]
        /\ constructed[shape[t1]] = 1

(***************************************************************************)
(* C4.  Access to the backend is serialized: no two backend calls are in   *)
(* progress on the same backend at the same time.                          *)
(* Stated as written; enigo() hands every caller a &'static mut Enigo      *)
(* with no lock, so two threads can be inside a backend call at once.      *)
(***************************************************************************)
C4_BackendCallsSerialized ==
    \A t1, t2 \in Threads :
        pc[t1] = "incall" /\ pc[t2] = "incall" /\ ref[t1] = ref[t2] => t1 = t2

(***************************************************************************)
(* C5.  In the Inline Filter a malformed required field aborts only the    *)
(* handling of that one event: later well-formed events are still          *)
(* executed and later unrecognized events are still forwarded.             *)
(* Stated as written, for every event delivered to the src pad while the   *)
(* backend has not failed to construct; after the panic of a missing       *)
(* field the element's panicked flag keeps src_event from running.         *)
(***************************************************************************)
C5_LaterEventsStillHandled ==
    \A t \in Threads :
        FilterDone(t) /\ INIT["filter"] /= "POISONED" =>
            /\ Recognized(ev[t]) => calls[t] /= <<>>
            /\ Unrecognized(ev[t]) => Len(pushed[t]) = 1

(***************************************************************************)
(* C6.  A key-press or key-release event with no key field makes no        *)
(* backend call, is logged and does not panic, in both handlers; src_event *)
(* returns true for it without pushing it upstream, and handling it        *)
(* leaves the element's panicked flag and the backend statics as they      *)
(* were, so later events are handled as before.                            *)
(***************************************************************************)
C6_MissingKeyInv ==
    \A t \in Threads :
        pc[t] = "done" /\ MissingKey(ev[t]) /\ exit[t] /= "skipped" =>
            /\ exit[t] = "return"
            /\ calls[t] = <<>>
            /\ pushed[t] = <<>>
            /\ ret[t] = IF shape[t] = "filter" THEN "true" ELSE "unit"
            /\ \/ HasLog(t, "error: 'key' not found")
               \/ HasLog(t, "warning: 'key' not found")

C6_MissingKeyStep ==
    \A t \in Threads :
        pc[t] = "idle" /\ pc'[t] = "done" /\ MissingKey(ev'[t]) =>
            UNCHANGED <<statics, panicked>>

C6_MissingKey == []C6_MissingKeyInv /\ [][C6_MissingKeyStep]_vars

\* src_event has returned true for a key-press without key.
C6_MissingKeyHandled ==
    \E t \in Threads :
        /\ FilterDone(t) /\ ev[t] = KeyEvent("key-press", NoField)
        /\ ret[t] = "true" /\ exit[t] = "return" /\ ~panicked

(***************************************************************************)
(* C7.  src_event, given an event that is not a navigation event or a      *)
(* navigation event whose name is none of the six, makes no backend call,  *)
(* pushes that same event through the sink pad exactly once and returns    *)
(* the result of the push.                                                 *)
(***************************************************************************)
C7_UnrecognizedForwarded ==
    \A t \in Threads :
        FilterDone(t) /\ Unrecognized(ev[t]) /\ exit[t] /= "skipped" =>
            /\ exit[t] = "return"
            /\ calls[t] = <<>>
            /\ Len(pushed[t]) = 1
            /\ pushed[t][1].ev = ev[t]
            /\ ret[t] = IF pushed[t][1].res THEN "true" ELSE "false"

\* A pinch-zoom event was pushed upstream and upstream refused it.
C7_PinchZoomForwarded ==
    \E t \in Threads :
        /\ FilterDone(t) /\ ev[t] = NamedEvent("pinch-zoom")
        /\ pushed[t] = <<[ev |-> NamedEvent("pinch-zoom"), res |-> FALSE]>>
        /\ ret[t] = "false"

(***************************************************************************)
(* C8.  For a button event with button 1, 2 or 3 a handler that runs to    *)
(* its end makes exactly one backend call: button(Left, Middle or Right    *)
(* for 1, 2, 3; Press for mouse-button-press, Release for                  *)
(* mouse-button-release).  It makes none only when backend access fails.   *)
(***************************************************************************)
C8_ButtonCall ==
    \A t \in Threads :
        pc[t] = "done" /\ InRangeButton(ev[t]) /\ exit[t] /= "skipped" =>
            IF exit[t] = "return"
            THEN CallsMade(t) =
                    << ButtonCall(<<"Left", "Middle", "Right">>[ev[t].button.n],
                                  IF ev[t].event.s = "mouse-button-press"
                                  THEN "Press" ELSE "Release") >>
            ELSE calls[t] = <<>> /\ BackendUnavailable(t)

\* src_event has made the one call of a release of button 2.
C8_ButtonCallMade ==
    \E t \in Threads :
        /\ FilterDone(t) /\ ev[t] = ButtonEvent("mouse-button-release", I32(2))
        /\ CallsMade(t) = <<ButtonCall("Middle", "Release")>>
        /\ ret[t] = "true"

(***************************************************************************)
(* C9.  A button event whose button is outside 1..3 makes no backend call  *)
(* and no panic; src_event pushes it through the sink pad like an          *)
(* unrecognized event, the standalone handler returns.                     *)
(***************************************************************************)
C9_OutOfRangeButton ==
    \A t \in Threads :
        pc[t] = "done" /\ OutOfRangeButton(ev[t]) /\ exit[t] /= "skipped" =>
            /\ exit[t] = "return"
            /\ calls[t] = <<>>
            /\ IF shape[t] = "filter"
               THEN /\ Len(pushed[t]) = 1
                    /\ pushed[t][1].ev = ev[t]
                    /\ ret[t] = IF pushed[t][1].res THEN "true" ELSE "false"
               ELSE pushed[t] = <<>> /\ ret[t] = "unit"

\* src_event has forwarded a press of button 4.
C9_ButtonFourForwarded ==
    \E t \in Threads :
        /\ FilterDone(t) /\ ev[t] = ButtonEvent("mouse-button-press", I32(4))
        /\ Len(pushed[t]) = 1 /\ calls[t] = <<>> /\ exit[t] = "return"

(***************************************************************************)
(* C10.  For a mouse-scroll event each delta is taken toward zero to an    *)
(* i32; a handler that runs to its end has made one scroll call per axis   *)
(* whose delta is then non-zero, Horizontal for delta_pointer_x and        *)
(* Vertical for delta_pointer_y, with that delta, and none for an axis     *)
(* whose delta is 0.  It makes fewer only when backend access fails.       *)
(***************************************************************************)
ScrollActions(e) ==
    SelectSeq(<< ScrollCall(TowardZero(e.delta_pointer_x), "Horizontal"),
                 ScrollCall(TowardZero(e.delta_pointer_y), "Vertical") >>,
              LAMBDA c : c.n1 /= 0)

C10_ScrollCalls ==
    \A t \in Threads :
        pc[t] = "done" /\ WellFormedScroll(ev[t]) /\ exit[t] /= "skipped" =>
            IF exit[t] = "return"
            THEN CallsMade(t) = ScrollActions(ev[t])
            ELSE /\ BackendUnavailable(t)
                 /\ Len(calls[t]) < Len(ScrollActions(ev[t]))
                 /\ CallsMade(t) = SubSeq(ScrollActions(ev[t]), 1, Len(calls[t]))

\* delta_pointer_x = 0, delta_pointer_y = -5.2 made the one call scroll(-5, Vertical).
C10_OneVerticalScroll ==
    \E t \in Threads :
        /\ pc[t] = "done" /\ ev[t] = ScrollEvent(F64(0), F64(-52))
        /\ CallsMade(t) = <<ScrollCall(-5, "Vertical")>>

(***************************************************************************)
(* C11.  Key resolution of key-press / key-release.  The key string is     *)
(* first matched exactly (case-sensitively) against the named-key table: a *)
(* name of the table gives one key call with its symbolic key, however     *)
(* long the name.  Otherwise a string of one character gives one key call  *)
(* with the printable key of that character, the empty string is logged as *)
(* an empty key and a longer string as a multi-character key, and in both  *)
(* error cases no backend call is made.                                    *)
(***************************************************************************)
\* The symbolic key a name of the table stands for.
SymbolicKey(name) ==
    CASE name = "Enter" -> "Key::Return"
      [] name \in {"ShiftLeft", "ControlLeft"} ->
           "Key::L" \o (IF name = "ShiftLeft" THEN "Shift" ELSE "Control")
      [] name \in {"ShiftRight", "ControlRight"} ->
           "Key::R" \o (IF name = "ShiftRight" THEN "Shift" ELSE "Control")
      [] name \in {"AltLeft", "AltRight"} -> "Key::Alt"
      [] name \in {"MetaLeft", "MetaRight"} -> "Key::Meta"
      [] name = "ArrowLeft" -> "Key::LeftArrow"
      [] name = "ArrowUp" -> "Key::UpArrow"
      [] name = "ArrowRight" -> "Key::RightArrow"
      [] name = "ArrowDown" -> "Key::DownArrow"
      [] OTHER -> "Key::" \o name

DirectionOf(e) ==
    IF e.event.s \in {"key-press", "mouse-button-press"} THEN "Press" ELSE "Release"

\* The handler of t made exactly the calls cs, or none of them because enigo() panicked.
MadeExactly(t, cs) ==
    IF exit[t] = "return"
    THEN CallsMade(t) = cs
    ELSE /\ BackendUnavailable(t)
         /\ Len(calls[t]) < Len(cs)
         /\ CallsMade(t) = SubSeq(cs, 1, Len(calls[t]))

C11_KeyResolution ==
    \A t \in Threads :
        /\ pc[t] = "done" /\ exit[t] /= "skipped"
        /\ IsNamed(ev[t], {"key-press", "key-release"}) /\ ev[t].key.k = "str"
        => LET str == ev[t].key.s
           IN  IF str \in KeyNames
               THEN MadeExactly(t, <<KeyCall(SymbolicKey(str), DirectionOf(ev[t]))>>)
               ELSE IF Len(str) = 1
               THEN MadeExactly(t, <<KeyCall("Key::Unicode(" \o str \o ")",
                                             DirectionOf(ev[t]))>>)
               ELSE /\ exit[t] = "return"
                    /\ calls[t] = <<>>
                    /\ HasLog(t, IF Len(str) = 0 THEN "error: Empty 'key'"
                                 ELSE "error: Multi-character 'key'")

\* The two-character name F1 gave the key F1, not a multi-character error.
C11_NamedKeyPressed ==
    \E t \in Threads :
        /\ FilterDone(t) /\ ev[t] = KeyEvent("key-press", Str("F1"))
        /\ CallsMade(t) = <<KeyCall("Key::F1", "Press")>>
        /\ ~HasLog(t, "error: Multi-character 'key'")

(***************************************************************************)
(* C12.  A mouse-move event whose pointer_x and pointer_y are floats gives *)
(* exactly one absolute pointer-move call, with both coordinates truncated *)
(* toward zero: 3.9 becomes 3 and -3.9 becomes -3 (neither rounded nor     *)
(* floored).  The call is absent only when the backend could not be        *)
(* constructed.                                                            *)
(***************************************************************************)
C12_MoveTruncates ==
    \A t \in Threads :
        pc[t] = "done" /\ WellFormedMove(ev[t]) /\ exit[t] /= "skipped" =>
            MadeExactly(t, <<MoveMouseCall(TowardZero(ev[t].pointer_x),
                                           TowardZero(ev[t].pointer_y))>>)

\* (3.9, -3.9) has moved the pointer to (3, -3), in both handlers' terms.
C12_MovedToThreeMinusThree ==
    \E t \in Threads :
        /\ pc[t] = "done" /\ ev[t] = MouseMoveEvent(F64(39), F64(-39))
        /\ exit[t] = "return"
        /\ Len(calls[t]) = 1
        /\ calls[t][1].call.op = "move_mouse"
        /\ calls[t][1].call.n1 = 3 /\ calls[t][1].call.n2 = -3
        /\ calls[t][1].call.s1 = "Abs"

(***************************************************************************)
(* C13.  Initialisation of a backend releases the nine modifier keys       *)
(* CapsLock, Shift, LShift, RShift, Control, LControl, RControl, Alt and   *)
(* Meta right after the construction; a release that fails neither stops   *)
(* the remaining releases nor fails the initialisation; and all nine are   *)
(* released before the first move, button, scroll or key call of an event  *)
(* is executed on that backend.                                            *)
(***************************************************************************)
NineModifiers ==
    << "Key::CapsLock", "Key::Shift", "Key::LShift", "Key::RShift", "Key::Control",
       "Key::LControl", "Key::RControl", "Key::Alt", "Key::Meta" >>

C13_ModifiersReleasedFirst ==
    \A m \in Modules :
        /\ Len(released[m]) <= 9
        /\ released[m] = SubSeq(NineModifiers, 1, Len(released[m]))
        \* right after the construction, by the thread that constructed
        /\ released[m] /= <<>> => constructed[m] = 1
        /\ Len(released[m]) \in 1..8 =>
              /\ INIT[m] = "RUNNING"
              /\ \E t \in Threads : shape[t] = m /\ pc[t] = "release"
        \* a failed release neither stops the loop nor fails the initialisation
        /\ released[m] /= <<>> => INIT[m] \in {"RUNNING", "COMPLETE"}
        /\ releaseFailed[m] => released[m] /= <<>>
        /\ INIT[m] = "COMPLETE" => released[m] = NineModifiers
        /\ GLOBAL_ENIGO[m] /= 0 => released[m] = NineModifiers
        \* all nine before the first translated action on that backend
        /\ \A t \in Threads :
              shape[t] = m /\ (pc[t] = "incall" \/ calls[t] /= <<>> \/ ref[t] /= 0) =>
                  released[m] = NineModifiers

\* A release failed, the initialisation completed all the same and an event's
\* action has been executed on the backend.
C13_FailedReleaseThenAction ==
    \E t \in Threads :
        /\ releaseFailed[shape[t]]
        /\ INIT[shape[t]] = "COMPLETE"
        /\ released[shape[t]] = NineModifiers
        /\ calls[t] /= <<>>
        /\ calls[t][1].on = GLOBAL_ENIGO[shape[t]]

(***************************************************************************)
(* C14.  Once an enigo() call has succeeded, every further event reuses    *)
(* the same backend instance: nothing is constructed again and no modifier *)
(* is released by initialisation again.  The only Release of a key the     *)
(* backend then sees is the one of a key-release event, so a modifier      *)
(* pressed by one event stays pressed until such an event is handled.      *)
(***************************************************************************)
\* Every call of an event went to the stored instance, and the only key
\* releases among them are those of key-release events.
C14_CallsOnStoredInstance ==
    \A t \in Threads :
        /\ ref[t] /= 0 => ref[t] = GLOBAL_ENIGO[shape[t]]
        /\ \A i \in 1..Len(calls[t]) :
              /\ calls[t][i].on = GLOBAL_ENIGO[shape[t]]
              /\ calls[t][i].call.op = "key" /\ calls[t][i].call.s2 = "Release"
                    => IsNamed(ev[t], {"key-release"})

\* After the first success the statics of that enigo() never change again.
C14_NoReinitialisation ==
    \A m \in Modules :
        GLOBAL_ENIGO[m] /= 0 =>
            /\ GLOBAL_ENIGO'[m] = GLOBAL_ENIGO[m]
            /\ constructed'[m] = constructed[m]
            /\ released'[m] = released[m]
            /\ newEnigo'[m] = 0
            /\ INIT'[m] = "COMPLETE"

C14_SameInstanceReused == []C14_CallsOnStoredInstance /\ [][C14_NoReinitialisation]_vars

\* The second enigo() call of a scroll event got the instance the first one
\* had stored: one construction, nine releases, both calls on that instance.
C14_SecondCallSameInstance ==
    \E t \in Threads :
        /\ pc[t] = "done" /\ ev[t] = ScrollEvent(F64(39), F64(-39))
        /\ exit[t] = "return"
        /\ Len(calls[t]) = 2
        /\ calls[t][1].on = GLOBAL_ENIGO[shape[t]]
        /\ calls[t][2].on = GLOBAL_ENIGO[shape[t]]
        /\ GLOBAL_ENIGO[shape[t]] /= 0
        /\ constructed[shape[t]] = 1
        /\ Len(released[shape[t]]) = 9

(***************************************************************************)
(* C15.  The backend is one process-wide singleton across both deployment  *)
(* shapes: in a process where src_event and handle_remotecontrol_event     *)
(* both handle events, the OS input-simulation session is constructed at   *)
(* most once and both shapes execute their calls on that one instance.     *)
(* Stated as written; each of the two files declares its own GLOBAL_ENIGO  *)
(* and INIT, so each shape constructs a session of its own.                *)
(***************************************************************************)
C15_OneSessionInProcess ==
    /\ constructed["filter"] + constructed["webrtc"] <= 1
    /\ \A m1, m2 \in Modules :
          GLOBAL_ENIGO[m1] /= 0 /\ GLOBAL_ENIGO[m2] /= 0 => GLOBAL_ENIGO[m1] = GLOBAL_ENIGO[m2]
    /\ Len(released["filter"]) + Len(released["webrtc"]) <= 9

(***************************************************************************)
(* C16.  If the construction of the backend fails on first use, it is      *)
(* never retried and no backend action succeeds afterwards in the process: *)
(* every later event that needs the backend fails at the backend access    *)
(* and issues no backend call.                                             *)
(* Stated as written, for the process; the poisoned Once of one file does  *)
(* not keep the enigo() of the other file from constructing (see C15).     *)
(***************************************************************************)
ConstructionFailedFirst ==
    /\ \E m \in Modules : INIT[m] = "POISONED"
    /\ \A m \in Modules : constructed[m] = 0

C16_NoRetryAfterFailure ==
    [][ConstructionFailedFirst =>
          /\ constructed' = constructed
          /\ \A m \in Modules : INIT[m] = "POISONED" => INIT'[m] = "POISONED"
          /\ \A t \in Threads : pc'[t] \notin {"new", "release", "incall"}
          /\ \A t \in Threads : calls'[t] = <<>>]_vars

(***************************************************************************)
(* C17.  A backend call of a move, button, scroll or key that returns an   *)
(* error is not retried and does not abort the handler: every action of    *)
(* the event is attempted exactly once, the handler returns normally, a    *)
(* failed horizontal scroll is still followed by the vertical scroll of    *)
(* the same event, and nothing later events depend on is changed.          *)
(***************************************************************************)
\* The backend calls an event stands for.
ExpectedActions(e) ==
    IF WellFormedMove(e)
    THEN <<MoveMouseCall(TowardZero(e.pointer_x), TowardZero(e.pointer_y))>>
    ELSE IF InRangeButton(e)
    THEN <<ButtonCall(<<"Left", "Middle", "Right">>[e.button.n], DirectionOf(e))>>
    ELSE IF WellFormedScroll(e)
    THEN ScrollActions(e)
    ELSE IF ValidKey(e)
    THEN <<KeyCall(IF e.key.s \in KeyNames THEN SymbolicKey(e.key.s)
                   ELSE "Key::Unicode(" \o e.key.s \o ")", DirectionOf(e))>>
    ELSE <<>>

C17_FailedCallInv ==
    \A t \in Threads :
        (\E i \in 1..Len(calls[t]) : ~calls[t][i].ok) =>
            /\ Len(calls[t]) <= Len(ExpectedActions(ev[t]))
            /\ CallsMade(t) = SubSeq(ExpectedActions(ev[t]), 1, Len(calls[t]))
            /\ pc[t] = "done" =>
                  /\ exit[t] = "return"
                  /\ ret[t] \in {"true", "false", "unit"}
                  /\ CallsMade(t) = ExpectedActions(ev[t])

\* The step in which a call fails changes neither the statics nor the
\* element's panicked flag, which is all that later events depend on.
C17_FailedCallStep ==
    \A t \in Threads :
        Len(calls'[t]) > Len(calls[t]) /\ ~calls'[t][Len(calls'[t])].ok =>
            /\ UNCHANGED <<statics, panicked>>
            /\ pc'[t] \in {"enigo", "done"}
            /\ pc'[t] = "done" => exit'[t] = "return"

C17_BackendErrorTolerated == []C17_FailedCallInv /\ [][C17_FailedCallStep]_vars

\* The horizontal scroll failed and the vertical scroll was made all the same.
C17_VerticalAfterFailedHorizontal ==
    \E t \in Threads :
        /\ pc[t] = "done" /\ ev[t] = ScrollEvent(F64(39), F64(-39))
        /\ exit[t] = "return"
        /\ Len(calls[t]) = 2
        /\ calls[t][1].call = ScrollCall(3, "Horizontal") /\ ~calls[t][1].ok
        /\ calls[t][2].call = ScrollCall(-3, "Vertical") /\ calls[t][2].ok

(***************************************************************************)
(* C18.  The two deployment shapes translate alike: for every well-formed  *)
(* event RemoteControl::src_event and handle_remotecontrol_event make the  *)
(* same backend calls, in the same order and with the same arguments; for  *)
(* an empty, multi-character or missing key, an out-of-range button or an  *)
(* unrecognized discriminator both make none.                              *)
(* Checked on what one shape did against what the body of the other shape  *)
(* does with the same event.                                               *)
(***************************************************************************)
\* A key string that is neither a name of the table nor one character.
UndecodableKey(e) ==
    /\ IsNamed(e, {"key-press", "key-release"})
    /\ e.key.k = "str" /\ e.key.s \notin KeyNames /\ Len(e.key.s) /= 1

\* The calls the other shape's handler issues for the event of t.
OtherShapeCalls(t) ==
    IF shape[t] = "filter" THEN HandleBody(ev[t]).plan ELSE SrcEventBody(ev[t]).plan

C18_SameTranslation ==
    \A t \in Threads :
        pc[t] = "done" /\ exit[t] /= "skipped" =>
            /\ exit[t] = "return" => CallsMade(t) = OtherShapeCalls(t)
            /\ exit[t] /= "return" =>
                  /\ calls[t] = <<>>
                  /\ OtherShapeCalls(t) /= <<>> => BackendUnavailable(t)
            /\ Recognized(ev[t]) => OtherShapeCalls(t) /= <<>>
            /\ \/ UndecodableKey(ev[t]) \/ MissingKey(ev[t])
               \/ OutOfRangeButton(ev[t]) \/ Unrecognized(ev[t])
               => calls[t] = <<>> /\ OtherShapeCalls(t) = <<>>

\* The standalone handler has moved the pointer where src_event moves it.
C18_HandlerMovesLikeFilter ==
    \E t \in Threads :
        /\ HandlerDone(t) /\ ev[t] = MouseMoveEvent(F64(39), F64(-52))
        /\ exit[t] = "return"
        /\ CallsMade(t) = SrcEventBody(ev[t]).plan
        /\ CallsMade(t) = <<MoveMouseCall(3, -5)>>

(***************************************************************************)
(* C19.  Decoding does not touch the backend.  An event that yields no     *)
(* action (a non-navigation event, an unrecognized discriminator, an       *)
(* out-of-range button, a mouse-scroll whose two truncated deltas are 0,   *)
(* a key event with a missing, empty or multi-character key) constructs    *)
(* no backend and makes no backend call: the statics change only while an  *)
(* event that yields an action is at its backend access, so a process that *)
(* has seen only events without action has no backend and no modifier      *)
(* released.                                                               *)
(***************************************************************************)
NoAction(e) ==
    \/ Unrecognized(e)
    \/ OutOfRangeButton(e)
    \/ /\ WellFormedScroll(e)
       /\ TowardZero(e.delta_pointer_x) = 0 /\ TowardZero(e.delta_pointer_y) = 0
    \/ MissingKey(e)
    \/ UndecodableKey(e)

C19_NoActionInv ==
    \A t \in Threads :
        pc[t] /= "idle" /\ NoAction(ev[t]) =>
            /\ pc[t] = "done"
            /\ calls[t] = <<>>
            /\ ref[t] = 0
            /\ plan[t] = <<>>

C19_NoActionStep ==
    /\ \A t \in Threads :
          pc[t] = "idle" /\ pc'[t] /= "idle" /\ NoAction(ev'[t]) => statics' = statics
    /\ statics' /= statics =>
          \E t \in Threads : pc[t] \in {"enigo", "new", "release"} /\ ~NoAction(ev[t])

C19_DecodingLeavesBackendAlone == []C19_NoActionInv /\ [][C19_NoActionStep]_vars

\* A scroll of (0.5, 0) was handled by the standalone handler and there is
\* still no backend: nothing constructed, no modifier released.
C19_ZeroScrollNoBackend ==
    \E t \in Threads :
        /\ HandlerDone(t) /\ ev[t] = ScrollEvent(F64(5), F64(0))
        /\ exit[t] = "return" /\ calls[t] = <<>>
        /\ \A m \in Modules :
              /\ INIT[m] = "INCOMPLETE" /\ GLOBAL_ENIGO[m] = 0
              /\ constructed[m] = 0 /\ released[m] = <<>>

(***************************************************************************)
(* C20.  In the Inline Filter a key-press or key-release event that does   *)
(* not decode (the key field is missing, the key is empty, or it has       *)
(* several characters and is no name of the table) is swallowed: src_event *)
(* returns true, pushes nothing through the sink pad and makes no backend  *)
(* call.                                                                   *)
(***************************************************************************)
C20_KeyDecodeFailureSwallowed ==
    \A t \in Threads :
        /\ FilterDone(t) /\ exit[t] /= "skipped"
        /\ MissingKey(ev[t]) \/ UndecodableKey(ev[t])
        => /\ exit[t] = "return"
           /\ ret[t] = "true"
           /\ pushed[t] = <<>>
           /\ calls[t] = <<>>
           /\ ~panicked

\* src_event has returned true for a key-press of "ab" and pushed nothing.
C20_MultiCharacterSwallowed ==
    \E t \in Threads :
        /\ FilterDone(t) /\ ev[t] = KeyEvent("key-press", Str("ab"))
        /\ ret[t] = "true" /\ pushed[t] = <<>> /\ calls[t] = <<>>
        /\ HasLog(t, "error: Multi-character 'key'")

(***************************************************************************)
(* C21.  The names AltLeft and AltRight resolve to the key of Alt, and     *)
(* MetaLeft and MetaRight to the key of Meta; ShiftLeft, ShiftRight,       *)
(* ControlLeft and ControlRight resolve to side-specific keys that differ  *)
(* from those of Shift and Control.  The key is the same for a press and   *)
(* for a release.                                                          *)
(***************************************************************************)
\* The key of the one key call t made for its key event.
KeySent(t) == calls[t][1].call.s1

C21_ModifierSides ==
    \A t \in Threads :
        /\ pc[t] = "done" /\ exit[t] = "return"
        /\ IsNamed(ev[t], {"key-press", "key-release"}) /\ ev[t].key.k = "str"
        /\ ev[t].key.s \in {"Alt", "AltLeft", "AltRight", "Meta", "MetaLeft", "MetaRight",
                            "Shift", "ShiftLeft", "ShiftRight",
                            "Control", "ControlLeft", "ControlRight"}
        => LET name == ev[t].key.s
           IN  /\ Len(calls[t]) = 1
               /\ calls[t][1].call.op = "key"
               /\ calls[t][1].call.s2 =
                     (IF ev[t].event.s = "key-press" THEN "Press" ELSE "Release")
               /\ name \in {"Alt", "AltLeft", "AltRight"} => KeySent(t) = "Key::Alt"
               /\ name \in {"Meta", "MetaLeft", "MetaRight"} => KeySent(t) = "Key::Meta"
               /\ name = "Shift" => KeySent(t) = "Key::Shift"
               /\ name = "ShiftLeft" => KeySent(t) = "Key::LShift"
               /\ name = "ShiftRight" => KeySent(t) = "Key::RShift"
               /\ name = "Control" => KeySent(t) = "Key::Control"
               /\ name = "ControlLeft" => KeySent(t) = "Key::LControl"
               /\ name = "ControlRight" => KeySent(t) = "Key::RControl"

\* The standalone handler has released Alt for a key-release of AltLeft.
C21_AltLeftReleasedAsAlt ==
    \E t \in Threads :
        /\ HandlerDone(t) /\ ev[t] = KeyEvent("key-release", Str("AltLeft"))
        /\ CallsMade(t) = <<KeyCall("Key::Alt", "Release")>>

(***************************************************************************)
(* C22.  In the forward direction of the Inline Filter every buffer that   *)
(* arrives on the sink pad is pushed exactly once through the src pad, in  *)
(* arrival order, and sink_chain returns the result of the push; every     *)
(* event that arrives on the sink pad is pushed exactly once through the   *)
(* src pad without a backend call; the handling of navigation events from  *)
(* the other direction never drops, duplicates or reorders what is         *)
(* forwarded.                                                              *)
(* Stated as written; after src_event has panicked on a malformed event    *)
(* the sink pad's functions are not run any more and what arrives is       *)
(* dropped.                                                                *)
(***************************************************************************)
C22_AllForwardedInOrder ==
    /\ srcpad = [i \in 1..Len(sunk) |-> sunk[i].item]
    /\ \A i \in 1..Len(sunk) :
          /\ sunk[i].item.kind = "buffer" => sunk[i].item.n = Len(SelectSeq(SubSeq(sunk, 1, i),
                                                      LAMBDA s : s.item.kind = "buffer"))
          /\ sunk[i].item.kind = "buffer" => sunk[i].ret = sunk[i].res

C22_ForwardTouchesNoBackend == sunk' /= sunk => UNCHANGED <<statics, calls, ref>>

C22_ForwardPassThrough == []C22_AllForwardedInOrder /\ [][C22_ForwardTouchesNoBackend]_vars

(***************************************************************************)
(* C23.  For a mouse-scroll event whose two truncated deltas are not zero  *)
(* the Horizontal scroll call is made before the Vertical one.  Over the   *)
(* events one thread handles the backend calls come in the order of the    *)
(* events: a call is made only for the event being handled, in the order   *)
(* of that event's actions, and an event is taken up only when no call of  *)
(* the one before is pending.                                              *)
(***************************************************************************)
BothDeltasNonZero(e) ==
    /\ WellFormedScroll(e)
    /\ TowardZero(e.delta_pointer_x) /= 0 /\ TowardZero(e.delta_pointer_y) /= 0

C23_HorizontalFirst ==
    \A t \in Threads :
        /\ pc[t] /= "idle" /\ BothDeltasNonZero(ev[t]) =>
              /\ Len(calls[t]) >= 1 =>
                    /\ calls[t][1].call.op = "scroll"
                    /\ calls[t][1].call.s1 = "Horizontal"
                    /\ calls[t][1].call.n1 = TowardZero(ev[t].delta_pointer_x)
              /\ Len(calls[t]) >= 2 =>
                    /\ calls[t][2].call.op = "scroll"
                    /\ calls[t][2].call.s1 = "Vertical"
                    /\ calls[t][2].call.n1 = TowardZero(ev[t].delta_pointer_y)
              /\ Len(calls[t]) <= 2
              /\ pc[t] = "done" /\ exit[t] = "return" => Len(calls[t]) = 2
        \* between two events nothing is pending
        /\ pc[t] \in {"idle", "done"} => plan[t] = <<>>
        /\ pc[t] = "idle" => calls[t] = <<>>

C23_CallsInHandlingOrder ==
    \A t \in Threads :
        \* a call is made by the handler of the current event, next in its order
        /\ calls'[t] /= calls[t] /\ calls'[t] /= <<>> =>
              /\ pc[t] = "incall"
              /\ ev'[t] = ev[t]
              /\ Len(calls'[t]) = Len(calls[t]) + 1
              /\ SubSeq(calls'[t], 1, Len(calls[t])) = calls[t]
              /\ calls'[t][Len(calls'[t])].call = ExpectedActions(ev[t])[Len(calls'[t])]
        \* the next event is taken up only after the handler of the one before ended
        /\ ev'[t] /= ev[t] /\ pc'[t] /= "idle" =>
              pc[t] = "idle" /\ plan[t] = <<>> /\ calls[t] = <<>>

C23_CallOrder == []C23_HorizontalFirst /\ [][C23_CallsInHandlingOrder]_vars

\* The filter scrolled 3 horizontally, then -3 vertically, both calls succeeding.
C23_HorizontalThenVertical ==
    \E t \in Threads :
        /\ FilterDone(t) /\ ev[t] = ScrollEvent(F64(39), F64(-39))
        /\ Len(calls[t]) = 2
        /\ calls[t][1].call = ScrollCall(3, "Horizontal") /\ calls[t][1].ok
        /\ calls[t][2].call = ScrollCall(-3, "Vertical") /\ calls[t][2].ok

====
